---- MODULE Spec2Model ----
(***************************************************************************)
(* A model of bathymetry_dashboard.py: one refresh cycle of the dashboard  *)
(* script (fetch with retry, point extraction, hazard flags,               *)
(* categorization, sidebar filters, table, map, exports), together with    *)
(* the two functions of the script taken on their own:                     *)
(* fetch_data_with_retry with arbitrary arguments and categorize on        *)
(* arbitrary rows.                                                         *)
(*                                                                         *)
(* Units.  Depths are integers counting half-metres, so that the 1.5 m     *)
(* rock threshold is the integer 3; HalfMetres(m) converts the source's    *)
(* metre constants.  A timestamp string is the record [iso |-> n] and the  *)
(* instant it denotes is the integer n.  Latitudes and longitudes are      *)
(* integers and a mean is an exact fraction [num, den] in lowest terms.    *)
(***************************************************************************)
EXTENDS Integers, Sequences, FiniteSets, TLC

VARIABLES
    pc,                 \* position in the script / in fetch_data_with_retry
    retries, delay,     \* arguments of fetch_data_with_retry
    attempt,            \* loop variable of fetch_data_with_retry
    log,                \* GETs issued and sleeps taken, in order
    result,             \* what fetch_data_with_retry returned or raised
    vessel_data,        \* module-level vessel_data
    all_points,         \* module-level all_points
    df,                 \* the DataFrame: a sequence of rows
    error,              \* the exception that ended the script, "" if none
    vessel_options, hazard_options,
    selected_vessels, selected_hazards, time_range,
    df_filtered,
    midpoint,
    ui,                 \* what has been rendered on the page, in order
    csv, geojson,       \* the two export payloads
    row, classification \* categorize taken alone: its argument and result

fetchVars == <<retries, delay, attempt, log, result>>
frameVars == <<vessel_data, all_points, df, error>>
sideVars  == <<vessel_options, hazard_options, selected_vessels,
               selected_hazards, time_range>>
outVars   == <<df_filtered, midpoint, csv, geojson>>
pureVars  == <<row, classification>>
vars == <<pc, fetchVars, frameVars, sideVars, outVars, ui, pureVars>>

(***************************************************************************)
(* Program constants                                                       *)
(***************************************************************************)
MBS == 10
DeepFrom == 30
WreckEvery == 7
RestrictedEvery == 13
Alpha == 160
DefaultRetries == 1
DefaultDelay == 5
CallRetries == 1
CallDelay == 7

(***************************************************************************)
(* Bounds of the model                                                     *)
(***************************************************************************)
MaxRetries == 2          \* retries argument ranges over 0..MaxRetries
MaxVessels == 2          \* vessels in a payload
MaxTotalPoints == 3      \* points in a payload of a whole refresh cycle
MaxNumPoints == 7        \* points per vessel when only the frame is built
MaxDepth == 32           \* deepest row given to categorize alone, in metres

HalfMetres(m) == 2 * m

(***************************************************************************)
(* Arithmetic helpers                                                      *)
(***************************************************************************)
Abs(x) == IF x < 0 THEN -x ELSE x

RECURSIVE GCD(_, _)
GCD(a, b) == IF b = 0 THEN a ELSE GCD(b, a % b)

\* The exact value n/d; [num |-> 0, den |-> 0] stands for NaN (0/0).
Frac(n, d) ==
    IF d = 0 THEN [num |-> 0, den |-> 0]
    ELSE LET g == GCD(Abs(n), d) IN [num |-> n \div g, den |-> d \div g]

RECURSIVE SumSeq(_)
SumSeq(s) == IF s = <<>> THEN 0 ELSE Head(s) + SumSeq(Tail(s))

RECURSIVE Concat(_)
Concat(ss) == IF ss = <<>> THEN <<>> ELSE Head(ss) \o Concat(Tail(ss))

Column(frame, c) == [i \in 1..Len(frame) |-> frame[i][c]]
Range(s) == {s[i] : i \in 1..Len(s)}

\* Series.mean(): NaN on an empty series
Mean(s) == Frac(SumSeq(s), Len(s))

(***************************************************************************)
(* Hazard categorization                                                   *)
(***************************************************************************)
Hex(s) == <<"#">> \o s

categorize_wreck_first(r) ==
    IF r.is_wreck THEN
        [category |-> "Wreck", symbol |-> "wreck", color |-> Hex(<<0,0,0,0,0,0>>)]
    ELSE IF r.is_restricted THEN
        [category |-> "Restricted Zone", symbol |-> "no-entry",
         color |-> Hex(<<15,15,4,5,0,0>>)]
    ELSE IF r.is_rock THEN
        [category |-> "Rock", symbol |-> "triangle", color |-> Hex(<<15,15,0,0,0,0>>)]
    ELSE IF r.depth < HalfMetres(MBS) THEN
        [category |-> "Shallow Water", symbol |-> "warning",
         color |-> Hex(<<1,14,9,0,15,15>>)]
    ELSE IF r.depth >= HalfMetres(DeepFrom) THEN
        [category |-> "Deep Water", symbol |-> "dash",
         color |-> Hex(<<15,15,15,15,15,15>>)]
    ELSE
        [category |-> "Safe Water", symbol |-> "check",
         color |-> Hex(<<3,2,12,13,3,2>>)]

categorize_inclusive_mbs(r) ==
    IF r.is_restricted THEN
        [category |-> "Restricted Zone", symbol |-> "no-entry",
         color |-> Hex(<<15,15,4,5,0,0>>)]
    ELSE IF r.is_wreck THEN
        [category |-> "Wreck", symbol |-> "wreck", color |-> Hex(<<0,0,0,0,0,0>>)]
    ELSE IF r.is_rock THEN
        [category |-> "Rock", symbol |-> "triangle", color |-> Hex(<<15,15,0,0,0,0>>)]
    ELSE IF r.depth <= HalfMetres(MBS) THEN
        [category |-> "Shallow Water", symbol |-> "warning",
         color |-> Hex(<<1,14,9,0,15,15>>)]
    ELSE IF r.depth >= HalfMetres(DeepFrom) THEN
        [category |-> "Deep Water", symbol |-> "dash",
         color |-> Hex(<<15,15,15,15,15,15>>)]
    ELSE
        [category |-> "Safe Water", symbol |-> "check",
         color |-> Hex(<<3,2,12,13,3,2>>)]

\* A colour "#RRGGBB" is the sequence of its characters, each hex digit
\* written as its value; symbols are named instead of drawn.
categorize(r) ==
    IF r.is_restricted THEN
        [category |-> "Restricted Zone", symbol |-> "no-entry",
         color |-> Hex(<<15,15,4,5,0,0>>)]
    ELSE IF r.is_wreck THEN
        [category |-> "Wreck", symbol |-> "wreck", color |-> Hex(<<0,0,0,0,0,0>>)]
    ELSE IF r.is_rock THEN
        [category |-> "Rock", symbol |-> "triangle", color |-> Hex(<<15,15,0,0,0,0>>)]
    ELSE IF r.depth < HalfMetres(MBS) THEN
        [category |-> "Shallow Water", symbol |-> "warning",
         color |-> Hex(<<1,14,9,0,15,15>>)]
    ELSE IF r.depth >= HalfMetres(DeepFrom) THEN
        [category |-> "Deep Water", symbol |-> "dash",
         color |-> Hex(<<15,15,15,15,15,15>>)]
    ELSE
        [category |-> "Safe Water", symbol |-> "check",
         color |-> Hex(<<3,2,12,13,3,2>>)]

\* hex_color.lstrip("#"), then int(h[i:i+2], 16) for i in (0, 2, 4), then alpha
lstrip_hash(s) == IF s # <<>> /\ Head(s) = "#" THEN Tail(s) ELSE s
hex_to_rgb(hex_color) ==
    LET h == lstrip_hash(hex_color)
    IN  <<16 * h[1] + h[2], 16 * h[3] + h[4], 16 * h[5] + h[6], Alpha>>

(***************************************************************************)
(* Payloads the API can answer with                                        *)
(***************************************************************************)
\* Depths the simulated vessels report, in half-metres: 1 m, 4 m, 12 m, 30 m.
DepthPool == <<2, 8, 24, 60>>
Seeds == 0..(Len(DepthPool) - 1)

\* Sample j of vessel k in the simulation seeded s.
RawPoint(k, j, s) ==
    [vessel_id |-> k,
     latitude  |-> 3 * k + j,
     longitude |-> j - 4 * k,
     depth     |-> DepthPool[((s + k + j) % Len(DepthPool)) + 1],
     timestamp |-> [iso |-> j]]

\* shape[k] is the number of points of vessel k.
Shapes(maxTotal, maxEach) ==
    {sh \in UNION {[1..n -> 0..maxEach] : n \in 0..MaxVessels} :
        SumSeq(sh) <= maxTotal}

PayloadOf(sh, s) ==
    [has_vessels |-> TRUE,
     vessels |-> [k \in 1..Len(sh) |->
                    [data |-> [j \in 1..sh[k] |-> RawPoint(k, j, s)]]]]

\* a JSON object without the "vessels" key
NoVesselsKey == [has_vessels |-> FALSE, vessels |-> <<>>]

\* Bodies of a whole refresh cycle, and bodies used when only the frame is built.
Payloads ==
    {NoVesselsKey} \cup
    {PayloadOf(sh, s) : sh \in Shapes(MaxTotalPoints, MaxTotalPoints), s \in Seeds}
FramePayloads ==
    {NoVesselsKey} \cup
    {PayloadOf(sh, s) : sh \in Shapes(MaxVessels * MaxNumPoints, MaxNumPoints),
                        s \in Seeds}

(***************************************************************************)
(* fetch_data_with_retry(url, retries, delay)                              *)
(***************************************************************************)
\* requests.get raising, raise_for_status raising, res.json() raising
Failures == {"ConnectionError", "HTTPError", "JSONDecodeError"}
NoResult == [kind |-> "none", payload |-> NoVesselsKey, exc |-> ""]
\* falling off the end of the for loop returns None
ReturnNone == [kind |-> "return_none", payload |-> NoVesselsKey, exc |-> ""]

GetEvent(outcome, body) ==
    [ev |-> "get", outcome |-> outcome, secs |-> 0, body |-> body]
SleepEvent(secs) ==
    [ev |-> "sleep", outcome |-> "", secs |-> secs, body |-> NoVesselsKey]

Gets == SelectSeq(log, LAMBDA e : e.ev = "get")
Sleeps == SelectSeq(log, LAMBDA e : e.ev = "sleep")

\* the loop's next iteration, or its end when range(retries + 1) is used up
NextIteration(a) ==
    /\ attempt' = a
    /\ pc' = IF a <= retries THEN "get" ELSE "returned"

GetOkKeepsLooping ==
    /\ pc = "get"
    /\ \E body \in Payloads :
        /\ log' = Append(log, GetEvent("ok", body))
        /\ result' = IF attempt + 1 <= retries
                     THEN [kind |-> "return", payload |-> body, exc |-> ""]
                     ELSE ReturnNone
    /\ NextIteration(attempt + 1)
    /\ UNCHANGED <<retries, delay>>
    /\ UNCHANGED <<frameVars, sideVars, outVars, ui, pureVars>>

\* the try body succeeds: return res.json()
GetOk ==
    /\ pc = "get"
    /\ \E body \in Payloads :
        /\ log' = Append(log, GetEvent("ok", body))
        /\ result' = [kind |-> "return", payload |-> body, exc |-> ""]
    /\ pc' = "returned"
    /\ UNCHANGED <<retries, delay, attempt>>
    /\ UNCHANGED <<frameVars, sideVars, outVars, ui, pureVars>>

\* the try body raises: control enters the except clause
GetFail ==
    /\ pc = "get"
    /\ \E f \in Failures :
        /\ log' = Append(log, GetEvent(f, NoVesselsKey))
        /\ result' = [kind |-> "caught", payload |-> NoVesselsKey, exc |-> f]
    /\ pc' = "except"
    /\ UNCHANGED <<retries, delay, attempt>>
    /\ UNCHANGED <<frameVars, sideVars, outVars, ui, pureVars>>

SleepGuardInclusive(a, n) == a <= n
\* if attempt < retries
SleepGuard(a, n) == a < n

\* time.sleep(delay), then the loop's next iteration
ExceptSleep ==
    /\ pc = "except"
    /\ SleepGuard(attempt, retries)
    /\ log' = Append(log, SleepEvent(delay))
    /\ NextIteration(attempt + 1)
    /\ result' = IF attempt + 1 <= retries THEN result ELSE ReturnNone
    /\ UNCHANGED <<retries, delay>>
    /\ UNCHANGED <<frameVars, sideVars, outVars, ui, pureVars>>

\* else: raise e
ExceptRaise ==
    /\ pc = "except"
    /\ ~SleepGuard(attempt, retries)
    /\ result' = [result EXCEPT !.kind = "raise"]
    /\ pc' = "raised"
    /\ UNCHANGED <<retries, delay, attempt, log>>
    /\ UNCHANGED <<frameVars, sideVars, outVars, ui, pureVars>>

(***************************************************************************)
(* The script, top to bottom                                               *)
(***************************************************************************)
\* with st.spinner(...): vessel_data = fetch_data_with_retry(API_URL, retries=1, delay=7)
CallFetch ==
    /\ pc = "start"
    /\ retries' = CallRetries
    /\ delay' = CallDelay
    /\ attempt' = 0
    /\ pc' = "get"
    /\ UNCHANGED <<log, result>>
    /\ UNCHANGED <<frameVars, sideVars, outVars, ui, pureVars>>

\* the call returns: vessel_data is bound
FetchReturned ==
    /\ pc = "returned"
    /\ vessel_data' = result.payload
    /\ pc' = "extract"
    /\ UNCHANGED <<all_points, df, error>>
    /\ UNCHANGED <<fetchVars, sideVars, outVars, ui, pureVars>>

FetchRaisedNoStop ==
    /\ pc = "raised"
    /\ ui' = Append(ui, "error")
    /\ pc' = "extract"
    /\ UNCHANGED <<fetchVars, frameVars, sideVars, outVars, pureVars>>

\* except Exception as e: st.error(...); st.stop()
FetchRaised ==
    /\ pc = "raised"
    /\ ui' = Append(ui, "error")
    /\ pc' = "stopped"
    /\ UNCHANGED <<fetchVars, frameVars, sideVars, outVars, pureVars>>

\* all_points = []; for vessel in vessel_data.get("vessels", []): all_points.extend(vessel["data"])
vessels_or_default(payload) ==
    IF payload.has_vessels THEN payload.vessels ELSE <<>>
ExtractPoints(payload) ==
    Concat([k \in 1..Len(vessels_or_default(payload)) |->
                vessels_or_default(payload)[k].data])

Extract ==
    /\ pc = "extract"
    /\ all_points' = ExtractPoints(vessel_data)
    /\ pc' = "process"
    /\ UNCHANGED <<vessel_data, df, error>>
    /\ UNCHANGED <<fetchVars, sideVars, outVars, ui, pureVars>>

\* Number of earlier points of the same vessel: the index each point would
\* have in a frame of its own vessel.
FrameIndexPerVessel(points) ==
    [i \in 1..Len(points) |->
        Cardinality({j \in 1..(i - 1) : points[j].vessel_id = points[i].vessel_id})]

\* pd.DataFrame(all_points): the default RangeIndex 0, 1, 2, ...
FrameIndex(points) == [i \in 1..Len(points) |-> i - 1]

\* pd.to_datetime / Timestamp.isoformat: between a string and its instant
to_datetime(ts) == ts.iso
isoformat(t) == [iso |-> t]

RawColumns == <<"vessel_id", "latitude", "longitude", "depth", "timestamp">>
\* the columns of df once lines 72-86 have run
DfColumns ==
    RawColumns \o <<"is_rock", "is_wreck", "is_restricted",
                    "category", "symbol", "color", "rgb">>

\* the row of a point with the three simulated hazard flags
FlaggedRow(p, index) ==
    [vessel_id |-> p.vessel_id, latitude |-> p.latitude, longitude |-> p.longitude,
     depth |-> p.depth, timestamp |-> to_datetime(p.timestamp),
     is_rock |-> p.depth < 3,          \* 1.5 m
     is_wreck |-> (p.depth >= HalfMetres(3)) /\ (p.depth < HalfMetres(5))
                    /\ (index % WreckEvery = 0),
     is_restricted |-> index % RestrictedEvery = 0]

\* df.apply(categorize, axis=1, result_type="expand"), then the rgb column
ClassifiedRow(r) ==
    LET c == categorize(r)
    IN  [vessel_id |-> r.vessel_id, latitude |-> r.latitude,
         longitude |-> r.longitude, depth |-> r.depth, timestamp |-> r.timestamp,
         is_rock |-> r.is_rock, is_wreck |-> r.is_wreck,
         is_restricted |-> r.is_restricted,
         category |-> c.category, symbol |-> c.symbol, color |-> c.color,
         rgb |-> hex_to_rgb(c.color)]

BuildFrame(points) ==
    [i \in 1..Len(points) |-> ClassifiedRow(FlaggedRow(points[i], FrameIndex(points)[i]))]

\* Lines 72-86.  A DataFrame built from an empty list has no columns, so
\* df["timestamp"] on line 75 raises KeyError and the script ends there.
Process ==
    /\ pc = "process"
    /\ IF all_points = <<>>
       THEN /\ error' = "KeyError: 'timestamp'"
            /\ pc' = "crashed"
            /\ df' = df
       ELSE /\ df' = BuildFrame(all_points)
            /\ pc' = "sidebar"
            /\ error' = error
    /\ UNCHANGED <<vessel_data, all_points>>
    /\ UNCHANGED <<fetchVars, sideVars, outVars, ui, pureVars>>

SetMin(S) == CHOOSE x \in S : \A y \in S : x <= y
SetMax(S) == CHOOSE x \in S : \A y \in S : x >= y

\* Lines 91-103: the options are computed from df and the user picks a subset
\* of the vessels, a subset of the hazards and a range inside [min, max].
Sidebar ==
    /\ pc = "sidebar"
    /\ vessel_options' = Range(Column(df, "vessel_id"))
    /\ hazard_options' = Range(Column(df, "category"))
    /\ \E sv \in SUBSET Range(Column(df, "vessel_id")),
          sh \in SUBSET Range(Column(df, "category")) :
        /\ selected_vessels' = sv
        /\ selected_hazards' = sh
    /\ LET min_time == SetMin(Range(Column(df, "timestamp")))
           max_time == SetMax(Range(Column(df, "timestamp")))
       IN  \E lo \in min_time..max_time, hi \in min_time..max_time :
              /\ lo <= hi
              /\ time_range' = <<lo, hi>>
    /\ ui' = Append(ui, "sidebar")
    /\ pc' = "filter"
    /\ UNCHANGED <<fetchVars, frameVars, outVars, pureVars>>

ApplyFiltersExclusiveEnd(frame, vs, hs, tr) ==
    SelectSeq(frame, LAMBDA r :
        /\ r.vessel_id \in vs
        /\ r.category \in hs
        /\ r.timestamp >= tr[1]
        /\ r.timestamp < tr[2])

\* df[isin(selected_vessels) & isin(selected_hazards) & (ts >= lo) & (ts <= hi)]
ApplyFilters(frame, vs, hs, tr) ==
    SelectSeq(frame, LAMBDA r :
        /\ r.vessel_id \in vs
        /\ r.category \in hs
        /\ r.timestamp >= tr[1]
        /\ r.timestamp <= tr[2])

\* Lines 106-117: the filter and the table
Filter ==
    /\ pc = "filter"
    /\ df_filtered' = ApplyFilters(df, selected_vessels, selected_hazards, time_range)
    /\ ui' = Append(ui, "table")
    /\ pc' = "map"
    /\ UNCHANGED <<midpoint, csv, geojson>>
    /\ UNCHANGED <<fetchVars, frameVars, sideVars, pureVars>>

Zero == [num |-> 0, den |-> 1]

MidpointOfNoFallback(frame) ==
    <<Mean(Column(frame, "latitude")), Mean(Column(frame, "longitude"))>>

\* if not df_filtered.empty: (mean latitude, mean longitude) else (0, 0)
MidpointOf(frame) ==
    IF frame # <<>>
    THEN <<Mean(Column(frame, "latitude")), Mean(Column(frame, "longitude"))>>
    ELSE <<Zero, Zero>>

\* Lines 122-150: the map
Map ==
    /\ pc = "map"
    /\ midpoint' = MidpointOf(df_filtered)
    /\ ui' = Append(ui, "map")
    /\ pc' = "export_csv"
    /\ UNCHANGED <<df_filtered, csv, geojson>>
    /\ UNCHANGED <<fetchVars, frameVars, sideVars, pureVars>>

\* df_filtered.to_csv(index=False): every column of the frame, one line per row
to_csv(frame) == [header |-> DfColumns, rows |-> frame]

\* Lines 159-161
ExportCsv ==
    /\ pc = "export_csv"
    /\ csv' = to_csv(df_filtered)
    /\ ui' = Append(ui, "download_csv")
    /\ pc' = "export_geojson"
    /\ UNCHANGED <<df_filtered, midpoint, geojson>>
    /\ UNCHANGED <<fetchVars, frameVars, sideVars, pureVars>>

Feature(r) ==
    [type |-> "Feature",
     geometry |-> [type |-> "Point", coordinates |-> <<r.longitude, r.latitude>>],
     properties |-> [vessel_id |-> r.vessel_id, depth |-> r.depth,
                     category |-> r.category,
                     timestamp |-> isoformat(r.timestamp)]]

to_geojson(frame) ==
    [type |-> "FeatureCollection",
     features |-> [i \in 1..Len(frame) |-> Feature(frame[i])]]

\* Lines 163-180
ExportGeoJson ==
    /\ pc = "export_geojson"
    /\ geojson' = to_geojson(df_filtered)
    /\ ui' = Append(ui, "download_geojson")
    /\ pc' = "legend"
    /\ UNCHANGED <<df_filtered, midpoint, csv>>
    /\ UNCHANGED <<fetchVars, frameVars, sideVars, pureVars>>

\* Lines 185-195
Legend ==
    /\ pc = "legend"
    /\ ui' = Append(ui, "legend")
    /\ pc' = "done"
    /\ UNCHANGED <<fetchVars, frameVars, sideVars, outVars, pureVars>>

(***************************************************************************)
(* categorize applied to one row                                           *)
(***************************************************************************)
Rows ==
    [depth : (-2)..HalfMetres(MaxDepth),
     is_restricted : BOOLEAN, is_wreck : BOOLEAN, is_rock : BOOLEAN]

NoClassification == [category |-> "", symbol |-> "", color |-> <<>>]

Classify ==
    /\ pc = "classify"
    /\ classification' = categorize(row)
    /\ pc' = "classified"
    /\ UNCHANGED row
    /\ UNCHANGED <<fetchVars, frameVars, sideVars, outVars, ui>>

(***************************************************************************)
(* Specifications                                                          *)
(***************************************************************************)
InitNoFetch ==
    /\ log = <<>>
    /\ result = NoResult
    /\ vessel_data = NoVesselsKey

InitRest ==
    /\ all_points = <<>>
    /\ df = <<>>
    /\ error = ""
    /\ vessel_options = {}
    /\ hazard_options = {}
    /\ selected_vessels = {}
    /\ selected_hazards = {}
    /\ time_range = <<>>
    /\ df_filtered = <<>>
    /\ midpoint = <<>>
    /\ csv = [header |-> <<>>, rows |-> <<>>]
    /\ geojson = [type |-> "", features |-> <<>>]

\* One refresh cycle of the script.
Init ==
    /\ pc = "start"
    /\ retries = 0 /\ delay = 0 /\ attempt = 0
    /\ ui = <<"title", "caption">>
    /\ row = [depth |-> 0, is_restricted |-> FALSE, is_wreck |-> FALSE,
              is_rock |-> FALSE]
    /\ classification = NoClassification
    /\ InitNoFetch
    /\ InitRest

Next ==
    \/ CallFetch \/ GetOk \/ GetFail \/ ExceptSleep \/ ExceptRaise
    \/ FetchReturned \/ FetchRaised
    \/ Extract \/ Process \/ Sidebar \/ Filter \/ Map
    \/ ExportCsv \/ ExportGeoJson \/ Legend

Spec == Init /\ [][Next]_vars

\* fetch_data_with_retry called with any retries and either delay.
Delays == {DefaultDelay, CallDelay}

InitFetch ==
    /\ pc = "get"
    /\ retries \in 0..MaxRetries
    /\ delay \in Delays
    /\ attempt = 0
    /\ ui = <<>>
    /\ row = [depth |-> 0, is_restricted |-> FALSE, is_wreck |-> FALSE,
              is_rock |-> FALSE]
    /\ classification = NoClassification
    /\ InitNoFetch
    /\ InitRest

NextFetch == GetOk \/ GetFail \/ ExceptSleep \/ ExceptRaise

SpecFetch == InitFetch /\ [][NextFetch]_vars /\ WF_vars(NextFetch)

\* Extraction and frame building on a fetched body of up to
\* MaxVessels * MaxNumPoints points.
InitFrame ==
    /\ pc = "extract"
    /\ retries = CallRetries /\ delay = CallDelay /\ attempt = 0
    /\ ui = <<"title", "caption">>
    /\ row = [depth |-> 0, is_restricted |-> FALSE, is_wreck |-> FALSE,
              is_rock |-> FALSE]
    /\ classification = NoClassification
    /\ InitRest
    /\ \E body \in FramePayloads :
        /\ log = <<GetEvent("ok", body)>>
        /\ result = [kind |-> "return", payload |-> body, exc |-> ""]
        /\ vessel_data = body

NextFrame == Extract \/ Process

SpecFrame == InitFrame /\ [][NextFrame]_vars

\* categorize on any row.
InitClassify ==
    /\ pc = "classify"
    /\ retries = 0 /\ delay = 0 /\ attempt = 0
    /\ ui = <<>>
    /\ row \in Rows
    /\ classification = NoClassification
    /\ InitNoFetch
    /\ InitRest

NextClassify == Classify

SpecClassify == InitClassify /\ [][NextClassify]_vars

(***************************************************************************)
(* Properties: categorize                                                  *)
(***************************************************************************)
Categories ==
    {"Restricted Zone", "Wreck", "Rock", "Shallow Water", "Deep Water", "Safe Water"}

NoFlags(r) == ~r.is_restricted /\ ~r.is_wreck /\ ~r.is_rock

AllFailed == \A i \in 1..Len(Gets) : Gets[i].outcome # "ok"
Finished == pc \in {"returned", "raised"}

\* GET, sleep(delay), GET, ..., GET
Alternates ==
    /\ Len(log) % 2 = 1
    /\ \A i \in 1..Len(log) :
        IF i % 2 = 1 THEN log[i].ev = "get"
        ELSE log[i].ev = "sleep" /\ log[i].secs = delay

\* C3: when every attempt fails the function ends by raising that failure,
\* after exactly retries + 1 GETs with one sleep of `delay` between each two
\* consecutive GETs (retries sleeps, none after the last GET); it never
\* returns instead.
C3_AllFailRaises ==
    /\ (Finished /\ AllFailed) => pc = "raised"
    /\ pc = "raised" =>
        /\ AllFailed
        /\ Len(Gets) = retries + 1
        /\ Len(Sleeps) = retries
        /\ Alternates
        /\ result.kind = "raise"
        /\ result.exc = log[Len(log)].outcome

\* the default retries = 1: two GETs, one sleep, then the raise
C3_Witness ==
    /\ pc = "raised"
    /\ retries = DefaultRetries
    /\ Len(Gets) = 2
    /\ Len(Sleeps) = 1
    /\ log[2].secs = delay

C10_Returned ==
    pc = "returned" =>
        /\ result.kind = "return"
        /\ attempt <= retries
        /\ Len(Gets) = attempt + 1
        /\ Len(Sleeps) = attempt
        /\ Alternates
        /\ \A i \in 1..attempt : Gets[i].outcome # "ok"
        /\ log[Len(log)].ev = "get" /\ log[Len(log)].outcome = "ok"
        /\ result.payload = log[Len(log)].body

\* C10: the function stops at the first successful attempt: if attempt k is
\* the first to succeed it returns that attempt's body after k + 1 GETs and
\* k sleeps, attempts nothing further and raises nothing; and it always
\* terminates, returning or raising, after at most retries + 1 GETs.
C10_StopsAtFirstSuccess ==
    /\ [](C10_Returned /\ Len(Gets) <= retries + 1)
    /\ [][Finished => (log' = log /\ pc' = pc)]_vars
    /\ <>Finished

\* the second attempt succeeded after one failure and one sleep
C10_Witness ==
    /\ pc = "returned"
    /\ attempt = 1
    /\ Len(Gets) = 2
    /\ Gets[1].outcome # "ok"
    /\ result.payload.has_vessels
    /\ result.payload.vessels # <<>>

(***************************************************************************)
(* Properties: the refresh cycle                                           *)
(***************************************************************************)
Untouched ==
    /\ all_points = <<>> /\ df = <<>> /\ df_filtered = <<>>
    /\ vessel_options = {} /\ hazard_options = {}
    /\ midpoint = <<>>
    /\ csv.header = <<>> /\ csv.rows = <<>>
    /\ geojson.type = "" /\ geojson.features = <<>>

\* C4: in a cycle whose fetch attempts all fail the failure is shown to the
\* user and the cycle stops: extraction, flags, classification, filtering,
\* map and both exports are never reached.
C4_FetchFailureStopsCycle ==
    (Len(Gets) = CallRetries + 1 /\ AllFailed) =>
        /\ pc \in {"except", "raised", "stopped"}
        /\ Untouched
        /\ error = ""
        /\ ui \in {<<"title", "caption">>, <<"title", "caption", "error">>}
        /\ pc = "stopped" => ui = <<"title", "caption", "error">>

\* both attempts failed, the error is on the page and the script has stopped
C4_Witness ==
    /\ pc = "stopped"
    /\ Len(Gets) = 2
    /\ AllFailed
    /\ ui = <<"title", "caption", "error">>

Vessels == IF vessel_data.has_vessels THEN vessel_data.vessels ELSE <<>>
\* points of the vessels before vessel k
Offset(k) == SumSeq([i \in 1..(k - 1) |-> Len(Vessels[i].data)])

\* C5: extraction concatenates the vessels' data in payload order, without
\* reordering, dropping or duplicating points, and is_wreck (3 <= depth < 5
\* and index mod 7 = 0) and is_restricted (index mod 13 = 0) use the
\* position in the flattened sequence, counted from 0, not the position
\* within the vessel.  (6 and 10 are 3 m and 5 m in half-metres.)
C5_GlobalIndexFlags ==
    /\ pc \in {"process", "sidebar", "crashed"} =>
        /\ Len(all_points) = Offset(Len(Vessels) + 1)
        /\ \A k \in 1..Len(Vessels) : \A j \in 1..Len(Vessels[k].data) :
              all_points[Offset(k) + j] = Vessels[k].data[j]
    /\ pc = "sidebar" =>
        /\ Len(df) = Len(all_points)
        /\ \A i \in 1..Len(df) :
            /\ df[i].vessel_id = all_points[i].vessel_id
            /\ df[i].depth = all_points[i].depth
            /\ df[i].latitude = all_points[i].latitude
            /\ df[i].longitude = all_points[i].longitude
            /\ df[i].timestamp = all_points[i].timestamp.iso
            /\ df[i].is_restricted = ((i - 1) % 13 = 0)
            /\ df[i].is_wreck =
                 (6 <= df[i].depth /\ df[i].depth < 10 /\ (i - 1) % 7 = 0)

\* vessels A (2 points) and B (1 point): B0 is row 2 of the frame, so it is
\* not restricted although it is the first point of its vessel
C5_Witness ==
    /\ pc = "sidebar"
    /\ Len(Vessels) = 2
    /\ Len(Vessels[1].data) = 2
    /\ Len(Vessels[2].data) = 1
    /\ df[1].is_restricted
    /\ df[3].vessel_id = 2
    /\ ~df[3].is_restricted

Filtered == pc \in {"map", "export_csv", "export_geojson", "legend", "done"}
Matches(r) ==
    /\ r.vessel_id \in selected_vessels
    /\ r.category \in selected_hazards
    /\ time_range[1] <= r.timestamp
    /\ r.timestamp <= time_range[2]
Kept == {i \in 1..Len(df) : Matches(df[i])}
\* the k-th smallest element of S
Kth(S, k) == CHOOSE i \in S : Cardinality({j \in S : j <= i}) = k

\* C6: the filter returns, in their original order, exactly the rows whose
\* vessel is selected and whose category is selected and whose timestamp is
\* in the closed range [start, end]; filtering the result again with the
\* same selections returns it unchanged.
C6_FilterConjunctiveIdempotent ==
    Filtered =>
        /\ Len(df_filtered) = Cardinality(Kept)
        /\ \A k \in 1..Len(df_filtered) : df_filtered[k] = df[Kth(Kept, k)]
        /\ ApplyFilters(df_filtered, selected_vessels, selected_hazards, time_range)
             = df_filtered

\* one row kept with the range ending on its timestamp, one dropped by the
\* vessel selection alone and one by the time range alone
C6_Witness ==
    /\ Filtered
    /\ \E i, j, k \in 1..Len(df) :
        /\ i \in Kept /\ df[i].timestamp = time_range[2]
        /\ df[j].vessel_id \notin selected_vessels
        /\ df[j].category \in selected_hazards
        /\ df[k].vessel_id \in selected_vessels
        /\ df[k].category \in selected_hazards
        /\ df[k].timestamp > time_range[2]

Mapped == pc \in {"export_csv", "export_geojson", "legend", "done"}

C8_EmptyPayloadCompletes ==
    (pc \notin {"start", "get", "except", "raised", "stopped", "returned", "extract"}
        /\ all_points = <<>>) =>
        /\ error = ""
        /\ pc # "crashed"

\* C9: the CSV export has the header columns vessel_id, latitude, longitude,
\* depth, category, symbol, timestamp and no others, followed by one line
\* per filtered row in filtered order.
C9_CsvColumns ==
    pc \in {"export_geojson", "legend", "done"} =>
        /\ Range(csv.header) = {"vessel_id", "latitude", "longitude", "depth",
                                "category", "symbol", "timestamp"}
        /\ Len(csv.rows) = Len(df_filtered)
        /\ \A i \in 1..Len(csv.rows) :
              csv.rows[i].vessel_id = df_filtered[i].vessel_id
              /\ csv.rows[i].timestamp = df_filtered[i].timestamp

====
